---------------------------- MODULE Spec2Model ----------------------------
(***************************************************************************)
(* Ledger-AI: the REST server of the expense tracker and the parts of its  *)
(* React client that navigate months and keep the query cache.             *)
(*                                                                         *)
(* State: the in-memory store (MemStorage), the clock, the response and    *)
(* side effects of the request served last, the requests whose handler is  *)
(* suspended at an await, and in the browser the page shown, the month the *)
(* analytics page selected and the query cache.  One action per route      *)
(* registered in registerRoutes and per client event handler; the session  *)
(* (req.user), the request's body, URL parameters and the hosted LLM's     *)
(* replies are inputs.                                                     *)
(***************************************************************************)
EXTENDS Integers, Sequences, FiniteSets, TLC

VARIABLES
    transactions,          \* MemStorage.transactions : Map<id, Transaction>
    currentTransactionId,  \* MemStorage.currentTransactionId
    now,                   \* the server clock, new Date(), in ticks
    res,                   \* the response to the request served last
    fx,                    \* what serving that request did: storage reads/writes, LLM calls
    users,                 \* MemStorage.users : Map<id, User>
    currentUserId,         \* MemStorage.currentUserId
    pending,               \* creates in flight: received, or suspended at their await
    page,                  \* the route the client shows
    selectedMonth,         \* AnalyticsPage: useState({year, month})
    currentDate,           \* AnalyticsPage: new Date() of its last render
    queries                \* the client's query cache, by query key

serverVars == <<transactions, currentTransactionId, res, fx>>
userVars == <<users, currentUserId>>
clientVars == <<page, selectedMonth, currentDate, queries>>
vars == <<transactions, currentTransactionId, now, res, fx, users, currentUserId, pending,
          page, selectedMonth, currentDate, queries>>

-----------------------------------------------------------------------------
(* Bounds of the model *)

MaxTx == 2             \* transactions created under Spec and SpecStore
MaxTxAI == 10          \* transactions created under SpecAI
RichTxAI == 1          \* under SpecAI, how many of them vary in kind and owner
TicksPerMonth == 2     \* clock granularity: distinct instants within one month
MaxTicks == 1          \* how far the server clock advances
MaxTxInsights == 5     \* transactions created under SpecInsights
MaxCreates == 2        \* creates of each kind under SpecCreates
MaxPending == 2        \* creates in flight at once under SpecCreates
MaxMonthsBack == 2     \* how far before the current month the analytics page goes

-----------------------------------------------------------------------------
(* Time: a Date is its time value in ticks; an Invalid Date has time NaN *)

MonthsPerYear == 12
InvalidDate == -1

getFullYear(t) == t \div (MonthsPerYear * TicksPerMonth)
getMonth(t) == (t \div TicksPerMonth) % MonthsPerYear

\* the instant the server starts at: the last one of December of year 1
StartTick == 2 * MonthsPerYear * TicksPerMonth - 1

Users == {1, 2}
Anonymous == 0
Sessions == Users \cup {Anonymous}

-----------------------------------------------------------------------------
(* JavaScript values of a request body or a parsed reply: k is typeof, the   *)
(* other field the value                                                     *)

Undefined == [k |-> "undefined", n |-> 0, b |-> FALSE, s |-> ""]
JsNumber(n) == [k |-> "number", n |-> n, b |-> FALSE, s |-> ""]
JsBoolean(b) == [k |-> "boolean", n |-> 0, b |-> b, s |-> ""]
\* a string; n is the time value new Date(s) gives for it
JsString(s, n) == [k |-> "string", n |-> n, b |-> FALSE, s |-> s]
\* an object, s naming its content
JsObject(s) == [k |-> "object", n |-> 0, b |-> FALSE, s |-> s]

Truthy(v) ==
    CASE v.k = "boolean" -> v.b
      [] v.k = "number"  -> v.n # 0
      [] v.k = "string"  -> v.s # ""
      [] v.k = "object"  -> TRUE
      [] OTHER           -> FALSE

-----------------------------------------------------------------------------
(* Array.prototype.sort as the runtime does it for short arrays: the initial *)
(* run is found (and reversed when strictly descending), the rest is put in  *)
(* place by binary insertion.  A comparator result of NaN counts as 0.       *)

\* the comparator of getTransactions: b.date - a.date, NaN for an Invalid Date
CompareMutAscending(a, b) ==
    IF a.date = InvalidDate \/ b.date = InvalidDate THEN 0 ELSE a.date - b.date

Compare(a, b) ==
    IF a.date = InvalidDate \/ b.date = InvalidDate THEN 0 ELSE b.date - a.date

RECURSIVE Reverse(_)
Reverse(s) == IF s = <<>> THEN <<>> ELSE Append(Reverse(Tail(s)), Head(s))

\* length of the run starting at a[1], given it is descending or not
RECURSIVE RunLength(_, _, _)
RunLength(a, idx, isDescending) ==
    IF idx > Len(a) THEN idx - 1
    ELSE LET order == Compare(a[idx], a[idx - 1])
         IN  IF (isDescending /\ order >= 0) \/ (~isDescending /\ order < 0)
             THEN idx - 1
             ELSE RunLength(a, idx + 1, isDescending)

RECURSIVE BinarySearch(_, _, _, _)
BinarySearch(a, pivot, left, right) ==
    IF left >= right THEN left
    ELSE LET mid == left + ((right - left) \div 2)
         IN  IF Compare(pivot, a[mid]) < 0
             THEN BinarySearch(a, pivot, left, mid)
             ELSE BinarySearch(a, pivot, mid + 1, right)

InsertAt(a, i, x) == SubSeq(a, 1, i - 1) \o <<x>> \o SubSeq(a, i, Len(a))

\* a[1..start-1] is in place; put a[start..] in, one by one
RECURSIVE BinaryInsertionSort(_, _)
BinaryInsertionSort(a, start) ==
    IF start > Len(a) THEN a
    ELSE LET pivot == a[start]
             left == BinarySearch(a, pivot, 1, start)
             placed == InsertAt(SubSeq(a, 1, start - 1), left, pivot)
                         \o SubSeq(a, start + 1, Len(a))
         IN  BinaryInsertionSort(placed, start + 1)

Sort(a) ==
    IF Len(a) < 2 THEN a
    ELSE LET isDescending == Compare(a[2], a[1]) < 0
             run == RunLength(a, 3, isDescending)
             made == IF isDescending
                     THEN Reverse(SubSeq(a, 1, run)) \o SubSeq(a, run + 1, Len(a))
                     ELSE a
         IN  BinaryInsertionSort(made, run + 1)

-----------------------------------------------------------------------------
(* MemStorage *)

\* Array.from(map.values()): the values in insertion order, which is the
\* order of the keys because every key set is a fresh, larger id
RECURSIVE ValuesFrom(_, _)
ValuesFrom(m, keys) ==
    IF keys = {} THEN <<>>
    ELSE LET k == CHOOSE x \in keys : \A y \in keys : x <= y
         IN  <<m[k]>> \o ValuesFrom(m, keys \ {k})

MapValues(m) == ValuesFrom(m, DOMAIN m)

MapSet(m, k, v) == [x \in (DOMAIN m) \cup {k} |-> IF x = k THEN v ELSE m[x]]

\* getUser: the user with this id, if any
getUser(userMap, id) ==
    IF id \in DOMAIN userMap
    THEN [found |-> TRUE, user |-> userMap[id]]
    ELSE [found |-> FALSE, user |-> [id |-> 0, username |-> "", password |-> ""]]

\* getUserByUsername: Array.from(users.values()).find(...), the first in
\* insertion order, if any
getUserByUsername(userMap, username) ==
    LET named(u) == u.username = username
        matches == SelectSeq(MapValues(userMap), named)
    IN  IF matches = <<>>
        THEN [found |-> FALSE, user |-> [id |-> 0, username |-> "", password |-> ""]]
        ELSE [found |-> TRUE, user |-> Head(matches)]

\* createUser: returns the new map, the advanced counter and the stored user
createUser(userMap, nextId, insertUser) ==
    LET id == nextId
        user == [id |-> id, username |-> insertUser.username,
                 password |-> insertUser.password]
    IN  [users |-> MapSet(userMap, id, user),
         nextId |-> nextId + 1,
         user |-> user]

getTransactionsMutAllUsers(store, userId) ==
    Sort(MapValues(store))

getTransactions(store, userId) ==
    LET own(t) == t.userId = userId
    IN  Sort(SelectSeq(MapValues(store), own))

getTransactionsByMonth(store, userId, year, month) ==
    LET inMonth(t) ==
            /\ t.userId = userId
            /\ t.date # InvalidDate
            /\ getFullYear(t.date) = year
            /\ getMonth(t.date) = month
    IN  Sort(SelectSeq(MapValues(store), inMonth))

createTransactionMutNoIncrement(store, nextId, data, clock) ==
    LET id == nextId
        transaction ==
            [id |-> id,
             userId |-> data.userId,
             amount |-> data.amount,
             category |-> data.category,
             isIncome |-> data.isIncome,
             date |-> IF data.hasDate THEN data.date ELSE clock]
    IN  [store |-> MapSet(store, id, transaction),
         nextId |-> nextId,
         transaction |-> transaction]

\* transactionData: the parsed body with userId; date Undefined means "no date"
\* returns the new store, the advanced counter and the stored transaction
createTransaction(store, nextId, data, clock) ==
    LET id == nextId
        transaction ==
            [id |-> id,
             userId |-> data.userId,
             amount |-> data.amount,
             category |-> data.category,
             isIncome |-> data.isIncome,
             date |-> IF data.hasDate THEN data.date ELSE clock]
    IN  [store |-> MapSet(store, id, transaction),
         nextId |-> nextId + 1,
         transaction |-> transaction]

-----------------------------------------------------------------------------
(* insertTransactionSchema: amount and category required, isIncome optional  *)
(* (the column has a default), date a string turned into a Date; keys the    *)
(* schema does not pick (userId, id) are stripped.  description is optional  *)
(* free text that no decision reads and is left out of the model.            *)

RequestBody(amount, category, isIncome, date, userId, id) ==
    [amount |-> amount, category |-> category, isIncome |-> isIncome,
     date |-> date, userId |-> userId, id |-> id]

ZodErrors(body) ==
    {f \in {"amount", "category", "isIncome", "date"} :
        CASE f = "amount"   -> body.amount.k # "number"
          [] f = "category" -> body.category.k # "string"
          [] f = "isIncome" -> body.isIncome.k \notin {"boolean", "undefined"}
          [] f = "date"     -> body.date.k # "string"}

\* insertTransactionSchema.parse(req.body): success, or the ZodError's paths
insertTransactionSchema(body) ==
    [success |-> ZodErrors(body) = {},
     errors |-> ZodErrors(body),
     data |-> [amount |-> body.amount.n, category |-> body.category.s,
               isIncome |-> body.isIncome, date |-> body.date.n,
               hasDate |-> TRUE, userId |-> Anonymous]]

-----------------------------------------------------------------------------
(* parseInt(string) with no radix: leading white space, a sign, an optional *)
(* 0x prefix, then the longest prefix of digits; NaN when there is none     *)

NaN == [nan |-> TRUE, n |-> 0]
Num(n) == [nan |-> FALSE, n |-> n]
isNaN(v) == v.nan

DecimalDigits == {"0", "1", "2", "3", "4", "5", "6", "7", "8", "9"}
HexLetters == {"a", "b", "c", "d", "e", "f"}

DigitValue(c) ==
    CASE c = "0" -> 0 [] c = "1" -> 1 [] c = "2" -> 2 [] c = "3" -> 3
      [] c = "4" -> 4 [] c = "5" -> 5 [] c = "6" -> 6 [] c = "7" -> 7
      [] c = "8" -> 8 [] c = "9" -> 9 [] c = "a" -> 10 [] c = "b" -> 11
      [] c = "c" -> 12 [] c = "d" -> 13 [] c = "e" -> 14 [] c = "f" -> 15

IsDigit(c, radix) ==
    \/ c \in DecimalDigits
    \/ radix = 16 /\ c \in HexLetters

RECURSIVE TrimStart(_)
TrimStart(s) == IF s # <<>> /\ Head(s) = " " THEN TrimStart(Tail(s)) ELSE s

\* the value of the longest digit prefix of s after acc, and whether it has a digit
RECURSIVE ParseDigits(_, _, _, _)
ParseDigits(s, radix, acc, any) ==
    IF s # <<>> /\ IsDigit(Head(s), radix)
    THEN ParseDigits(Tail(s), radix, acc * radix + DigitValue(Head(s)), TRUE)
    ELSE [any |-> any, n |-> acc]

parseInt(str) ==
    LET s0 == TrimStart(str)
        negative == s0 # <<>> /\ Head(s0) = "-"
        s1 == IF s0 # <<>> /\ Head(s0) \in {"-", "+"} THEN Tail(s0) ELSE s0
        hex == Len(s1) >= 2 /\ s1[1] = "0" /\ s1[2] = "x"
        s2 == IF hex THEN Tail(Tail(s1)) ELSE s1
        d == ParseDigits(s2, IF hex THEN 16 ELSE 10, 0, FALSE)
    IN  IF ~d.any THEN NaN
        ELSE Num(IF negative THEN 0 - d.n ELSE d.n)

-----------------------------------------------------------------------------
(* Responses and the effects of serving a request *)

NoSummary == [balance |-> 0, income |-> 0, expenses |-> 0, transactionCount |-> 0]
\* a SpendingForecast; numbers are in tenths (of a rupee, of the unit interval)
Forecast(totalExpense, categoryBreakdown, confidence) ==
    [nextMonth |-> [totalExpense |-> totalExpense,
                    categoryBreakdown |-> categoryBreakdown],
     confidence |-> confidence]
NoForecast == Forecast(Undefined, Undefined, Undefined)
NoAI == [keys |-> {}, forecast |-> NoForecast]

\* res.json(...): kind says which of the fields is the body
Response(route, user, status, kind) ==
    [route |-> route, user |-> user, status |-> status, kind |-> kind,
     message |-> "", items |-> <<>>, errors |-> {}, summary |-> NoSummary,
     insights |-> <<>>, ai |-> NoAI]

\* prompts: the data sent to the hosted model during the request
NoEffect == [reads |-> 0, writes |-> 0, llm |-> 0, failed |-> 0, prompts |-> <<>>]

Unauthorized(route) ==
    [Response(route, Anonymous, 401, "message") EXCEPT !.message = "Unauthorized"]

ensureAuthenticatedMutAlwaysNext(user) == TRUE

\* TRUE when next() is called: req.isAuthenticated()
ensureAuthenticated(user) == user # Anonymous

-----------------------------------------------------------------------------
(* Route handlers: what the handler answers and does once next() was called *)

Out(r, effect, store, nextId) ==
    [res |-> r, fx |-> effect, store |-> store, nextId |-> nextId]

\* the middleware chain of a route: ensureAuthenticated, then the handler
Route(route, user, store, nextId, handled) ==
    IF ensureAuthenticated(user)
    THEN handled
    ELSE Out(Unauthorized(route), NoEffect, store, nextId)

\* GET /api/transactions
GetTransactionsHandler(store, nextId, user) ==
    Out([Response("GET /api/transactions", user, 200, "transactions")
            EXCEPT !.items = getTransactions(store, user)],
        [NoEffect EXCEPT !.reads = 1], store, nextId)

PostTransactionsHandlerMutStoreFirst(store, nextId, user, body, clock) ==
    LET parsed == insertTransactionSchema(body)
        created == createTransaction(store, nextId,
                                     [parsed.data EXCEPT !.userId = user], clock)
    IN  IF ~parsed.success
        THEN Out([Response("POST /api/transactions", user, 400, "errors")
                     EXCEPT !.errors = parsed.errors],
                 [NoEffect EXCEPT !.writes = 1], created.store, created.nextId)
        ELSE Out([Response("POST /api/transactions", user, 201, "transaction")
                     EXCEPT !.items = <<created.transaction>>],
                 [NoEffect EXCEPT !.writes = 1], created.store, created.nextId)

PostTransactionsHandlerMutBodyUser(store, nextId, user, body, clock) ==
    LET parsed == insertTransactionSchema(body)
        owner == IF body.userId.k = "number" THEN body.userId.n ELSE user
        created == createTransaction(store, nextId,
                                     [parsed.data EXCEPT !.userId = owner], clock)
    IN  IF ~parsed.success
        THEN Out([Response("POST /api/transactions", user, 400, "errors")
                     EXCEPT !.errors = parsed.errors],
                 NoEffect, store, nextId)
        ELSE Out([Response("POST /api/transactions", user, 201, "transaction")
                     EXCEPT !.items = <<created.transaction>>],
                 [NoEffect EXCEPT !.writes = 1], created.store, created.nextId)

\* POST /api/transactions
PostTransactionsHandler(store, nextId, user, body, clock) ==
    LET parsed == insertTransactionSchema(body)
        created == createTransaction(store, nextId,
                                     [parsed.data EXCEPT !.userId = user], clock)
    IN  IF ~parsed.success
        THEN Out([Response("POST /api/transactions", user, 400, "errors")
                     EXCEPT !.errors = parsed.errors],
                 NoEffect, store, nextId)
        ELSE Out([Response("POST /api/transactions", user, 201, "transaction")
                     EXCEPT !.items = <<created.transaction>>],
                 [NoEffect EXCEPT !.writes = 1], created.store, created.nextId)

GetTransactionsByMonthHandlerMutMonthOneBased(store, nextId, user, yearParam, monthParam) ==
    LET year == parseInt(yearParam)
        month == parseInt(monthParam)
    IN  IF isNaN(year) \/ isNaN(month) \/ month.n < 1 \/ month.n > 12
        THEN Out([Response("GET /api/transactions/month", user, 400, "message")
                     EXCEPT !.message = "Invalid year or month"],
                 NoEffect, store, nextId)
        ELSE Out([Response("GET /api/transactions/month", user, 200, "transactions")
                     EXCEPT !.items = getTransactionsByMonth(store, user, year.n, month.n)],
                 [NoEffect EXCEPT !.reads = 1], store, nextId)

\* GET /api/transactions/month/:year/:month
GetTransactionsByMonthHandler(store, nextId, user, yearParam, monthParam) ==
    LET year == parseInt(yearParam)
        month == parseInt(monthParam)
    IN  IF isNaN(year) \/ isNaN(month) \/ month.n < 0 \/ month.n > 11
        THEN Out([Response("GET /api/transactions/month", user, 400, "message")
                     EXCEPT !.message = "Invalid year or month"],
                 NoEffect, store, nextId)
        ELSE Out([Response("GET /api/transactions/month", user, 200, "transactions")
                     EXCEPT !.items = getTransactionsByMonth(store, user, year.n, month.n)],
                 [NoEffect EXCEPT !.reads = 1], store, nextId)

\* transactions.forEach(...) of the dashboard: income and expenses so far
RECURSIVE Totals(_, _, _)
Totals(list, income, expenses) ==
    IF list = <<>> THEN [income |-> income, expenses |-> expenses]
    ELSE IF Truthy(Head(list).isIncome)
         THEN Totals(Tail(list), income + Head(list).amount, expenses)
         ELSE Totals(Tail(list), income, expenses + Head(list).amount)

GetDashboardHandlerMutAllTime(store, nextId, user, clock) ==
    LET list == getTransactions(store, user)
        t == Totals(list, 0, 0)
    IN  Out([Response("GET /api/dashboard", user, 200, "summary")
                EXCEPT !.summary = [balance |-> t.income - t.expenses,
                                    income |-> t.income,
                                    expenses |-> t.expenses,
                                    transactionCount |-> Len(list)]],
            [NoEffect EXCEPT !.reads = 1], store, nextId)

\* GET /api/dashboard
GetDashboardHandler(store, nextId, user, clock) ==
    LET list == getTransactionsByMonth(store, user, getFullYear(clock), getMonth(clock))
        t == Totals(list, 0, 0)
    IN  Out([Response("GET /api/dashboard", user, 200, "summary")
                EXCEPT !.summary = [balance |-> t.income - t.expenses,
                                    income |-> t.income,
                                    expenses |-> t.expenses,
                                    transactionCount |-> Len(list)]],
            [NoEffect EXCEPT !.reads = 1], store, nextId)

-----------------------------------------------------------------------------
(* Rule-based insights: generateInsights and GET /api/insights *)

\* a Map<string, number> as its entries in insertion order
MapGet(m, category) ==
    IF \E i \in 1..Len(m) : m[i].category = category
    THEN m[CHOOSE i \in 1..Len(m) : m[i].category = category].amount
    ELSE 0

MapPut(m, category, amount) ==
    IF \E i \in 1..Len(m) : m[i].category = category
    THEN [i \in 1..Len(m) |->
            IF m[i].category = category
            THEN [category |-> category, amount |-> amount] ELSE m[i]]
    ELSE Append(m, [category |-> category, amount |-> amount])

\* data.filter(t => !t.isIncome).forEach(t => map.set(t.category, (map.get(t.category) || 0) + t.amount))
RECURSIVE ByCategory(_, _)
ByCategory(list, m) ==
    IF list = <<>> THEN m
    ELSE IF Truthy(Head(list).isIncome)
         THEN ByCategory(Tail(list), m)
         ELSE ByCategory(Tail(list),
                         MapPut(m, Head(list).category,
                                MapGet(m, Head(list).category) + Head(list).amount))

\* Math.round(num / den) for den # 0: the nearest integer, a half rounded up
RoundDiv(num, den) ==
    LET n == IF den < 0 THEN 0 - num ELSE num
        d == IF den < 0 THEN 0 - den ELSE den
    IN  (2 * n + d) \div (2 * d)

\* Math.round(((amount - previousAmount) / previousAmount) * 100)
IncreasePercentage(amount, previousAmount) ==
    RoundDiv((amount - previousAmount) * 100, previousAmount)

SignificantChange == 25
MaxInsights == 3
NumTips == 3

Insight(type, category, percent, text) ==
    [type |-> type, category |-> category, percent |-> percent, text |-> text]

\* the for loop over currentByCategory.entries()
RECURSIVE CategoryInsights(_, _, _)
CategoryInsights(current, previous, insights) ==
    IF current = <<>> THEN insights
    ELSE LET category == Head(current).category
             amount == Head(current).amount
             previousAmount == MapGet(previous, category)
             pct == IncreasePercentage(amount, previousAmount)
         IN  IF previousAmount = 0
             THEN CategoryInsights(Tail(current), previous,
                    Append(insights, Insight("new_category", category, 0, "")))
             ELSE CategoryInsights(Tail(current), previous,
                    insights
                    \o (IF pct >= SignificantChange
                        THEN <<Insight("increase", category, pct, "")>> ELSE <<>>)
                    \o (IF pct <= 0 - SignificantChange
                        THEN <<Insight("decrease", category, 0 - pct, "")>> ELSE <<>>))

Tips == <<"Try setting a monthly budget", "Consider saving at least 20%", "Review your subscriptions">>

generateInsightsMutNoSlice(store, currentMonth, previousMonth, userId, tipIndex, rejects) ==
    LET currentMonthData ==
            getTransactionsByMonth(store, userId, currentMonth.year, currentMonth.month)
        previousMonthData ==
            getTransactionsByMonth(store, userId, previousMonth.year, previousMonth.month)
        insights == CategoryInsights(ByCategory(currentMonthData, <<>>),
                                     ByCategory(previousMonthData, <<>>), <<>>)
    IN  IF rejects
        THEN <<Insight("tip", "", 0, "Add more transactions")>>
        ELSE IF Len(previousMonthData) = 0
        THEN <<Insight("tip", "", 0, "Welcome to your expense tracker!")>>
        ELSE IF Len(insights) = 0
             THEN <<Insight("tip", "", 0, Tips[tipIndex + 1])>>
             ELSE insights

\* tipIndex: Math.floor(Math.random() * tips.length); rejects: a storage call
\* rejected, which the catch block turns into one tip (MemStorage never does)
generateInsights(store, currentMonth, previousMonth, userId, tipIndex, rejects) ==
    LET currentMonthData ==
            getTransactionsByMonth(store, userId, currentMonth.year, currentMonth.month)
        previousMonthData ==
            getTransactionsByMonth(store, userId, previousMonth.year, previousMonth.month)
        insights == CategoryInsights(ByCategory(currentMonthData, <<>>),
                                     ByCategory(previousMonthData, <<>>), <<>>)
    IN  IF rejects
        THEN <<Insight("tip", "", 0, "Add more transactions")>>
        ELSE IF Len(previousMonthData) = 0
        THEN <<Insight("tip", "", 0, "Welcome to your expense tracker!")>>
        ELSE IF Len(insights) = 0
             THEN <<Insight("tip", "", 0, Tips[tipIndex + 1])>>
             ELSE SubSeq(insights, 1, IF Len(insights) < MaxInsights
                                      THEN Len(insights) ELSE MaxInsights)

\* GET /api/insights
GetInsightsHandler(store, nextId, user, clock, tipIndex) ==
    LET currentMonth == [year |-> getFullYear(clock), month |-> getMonth(clock)]
        previousMonth ==
            IF currentMonth.month = 0
            THEN [year |-> currentMonth.year - 1, month |-> MonthsPerYear - 1]
            ELSE [year |-> currentMonth.year, month |-> currentMonth.month - 1]
    IN  Out([Response("GET /api/insights", user, 200, "insights")
                EXCEPT !.insights =
                    generateInsights(store, currentMonth, previousMonth, user,
                                     tipIndex, FALSE)],
            [NoEffect EXCEPT !.reads = 2], store, nextId)

-----------------------------------------------------------------------------
(* AI insights: the five generators, generateAllInsights and their routes.  *)
(* A generator's outcome is whether it returned null, how many chat         *)
(* completions it asked for, and whether the call threw or its reply did    *)
(* not parse.  The hosted model's reply is an input:                        *)
(*   throws      openai.chat.completions.create rejects                     *)
(*   unparsable  the reply's content is not JSON: JSON.parse throws         *)
(*   empty       JSON without the keys asked for (as '{}')                  *)
(*   complete    JSON with the keys asked for                               *)

LLMReplies == {"throws", "unparsable", "empty", "complete"}

ForecastMinTransactions == 5
BudgetMinTransactions == 5
SavingsMinTransactions == 5
BillMinTransactions == 10
PatternMinTransactions == 10
AllInsightsMinTransactions == 5

\* prompts: what the generator placed in the user message of each call it made
Generated(isNull, calls, failed) ==
    [isNull |-> isNull, calls |-> calls, failed |-> failed, prompts |-> <<>>,
     forecast |-> NoForecast]

ExpensesMutAll(list) ==
    list

\* transactions.filter((t) => !t.isIncome)
Expenses(list) ==
    LET notIncome(t) == ~Truthy(t.isIncome)
    IN  SelectSeq(list, notIncome)

\* an amount in rupees, t.amount / 100, as the exact fraction n / d
Rupees(cents) == [n |-> cents, d |-> 100]

\* {...t, amount: t.amount / 100, date: new Date(t.date).toISOString().split('T')[0]}
\* the date becomes a string naming the day
Format(t) == [t EXCEPT !.amount = Rupees(t.amount), !.date = [day |-> t.date]]

formattedTransactions(list) ==
    [i \in 1..Len(Expenses(list)) |-> Format(Expenses(list)[i])]

\* the property names every object inherits from Object.prototype
InheritedKeys ==
    {"constructor", "toString", "toLocaleString", "valueOf", "hasOwnProperty",
     "isPrototypeOf", "propertyIsEnumerable", "__proto__", "__defineGetter__",
     "__defineSetter__", "__lookupGetter__", "__lookupSetter__"}

\* if (!byCategory[t.category]) byCategory[t.category] = ...; byCategory[t.category].push(...)
\* on a plain object: for an inherited name the lookup is truthy, nothing is
\* assigned, and the push throws a TypeError
GroupThrows(list) ==
    \E i \in 1..Len(Expenses(list)) : Expenses(list)[i].category \in InheritedKeys

RECURSIVE GroupByCategoryMutOverwrite(_, _)
GroupByCategoryMutOverwrite(formatted, groups) ==
    IF formatted = <<>> THEN groups
    ELSE LET t == Head(formatted)
             at == {i \in 1..Len(groups) : groups[i].category = t.category}
         IN  GroupByCategoryMutOverwrite(
                Tail(formatted),
                IF at = {}
                THEN Append(groups, [category |-> t.category, transactions |-> <<t>>])
                ELSE [i \in 1..Len(groups) |->
                        IF i \in at
                        THEN [groups[i] EXCEPT !.transactions = <<t>>]
                        ELSE groups[i]])

\* byCategory as its entries in insertion order, each with its transactions
RECURSIVE GroupByCategory(_, _)
GroupByCategory(formatted, groups) ==
    IF formatted = <<>> THEN groups
    ELSE LET t == Head(formatted)
             at == {i \in 1..Len(groups) : groups[i].category = t.category}
         IN  GroupByCategory(
                Tail(formatted),
                IF at = {}
                THEN Append(groups, [category |-> t.category, transactions |-> <<t>>])
                ELSE [i \in 1..Len(groups) |->
                        IF i \in at
                        THEN [groups[i] EXCEPT !.transactions = Append(@, t)]
                        ELSE groups[i]])

\* amounts.reduce((sum, amount) => sum + amount, 0), in rupees
RECURSIVE SumRupees(_)
SumRupees(formatted) ==
    IF formatted = <<>> THEN Rupees(0)
    ELSE Rupees(Head(formatted).amount.n + SumRupees(Tail(formatted)).n)

\* total / amounts.length
Average(total, count) == [n |-> total.n, d |-> total.d * count]

\* generateSpendingForecast: categoryTotals[category] = {total, avg}
categoryTotals(list) ==
    LET groups == GroupByCategory(formattedTransactions(list), <<>>)
    IN  [i \in 1..Len(groups) |->
            [category |-> groups[i].category,
             total |-> SumRupees(groups[i].transactions),
             avg |-> Average(SumRupees(groups[i].transactions),
                             Len(groups[i].transactions))]]

\* generateBudgetSuggestions: byCategory[category] = {total, count, transactions}
categorySpending(list) ==
    LET groups == GroupByCategory(formattedTransactions(list), <<>>)
    IN  [i \in 1..Len(groups) |->
            [category |-> groups[i].category,
             total |-> SumRupees(groups[i].transactions),
             count |-> Len(groups[i].transactions),
             transactions |-> groups[i].transactions]]

\* generateSavingsGoal: categoryAnalysis[category] = {total, avg, transactions}
categoryAnalysis(list) ==
    LET groups == GroupByCategory(formattedTransactions(list), <<>>)
    IN  [i \in 1..Len(groups) |->
            [category |-> groups[i].category,
             total |-> SumRupees(groups[i].transactions),
             avg |-> Average(SumRupees(groups[i].transactions),
                             Len(groups[i].transactions)),
             transactions |-> Len(groups[i].transactions)]]

\* date.getDay(): which of the seven days an instant falls on
DaysPerWeek == 7
getDay(t) == t % DaysPerWeek

\* detectSpendingPatterns: dayOfWeekDistribution[day]++ for every expense
dayOfWeekDistribution(list) ==
    [day \in 0..(DaysPerWeek - 1) |->
        Cardinality({i \in 1..Len(formattedTransactions(list)) :
                        getDay(formattedTransactions(list)[i].date.day) = day})]

\* formattedTransactions.slice(0, 20)
PatternSample == 20
Slice(list, n) == SubSeq(list, 1, IF Len(list) < n THEN Len(list) ELSE n)

\* the data a generator interpolates into its user message; parts it does
\* not send are empty
Prompt(generator, sent, categories, days, total) ==
    [generator |-> generator, transactions |-> sent, categories |-> categories,
     days |-> days, total |-> total]

\* expenses.map(t => ({..., date: new Date(t.date).toISOString()...})) throws a
\* RangeError when an expense holds an Invalid Date
FormatThrows(list) ==
    \E i \in 1..Len(list) : ~Truthy(list[i].isIncome) /\ list[i].date = InvalidDate

\* the part the generators share; needsList: null unless the reply holds the array
\* groups: the generator builds byCategory; prompt: what it sends when it calls
Generate(list, minTransactions, groups, needsList, reply, prompt) ==
    IF Len(list) < minTransactions THEN Generated(TRUE, 0, 0)
    ELSE IF FormatThrows(list) THEN Generated(TRUE, 0, 0)
    ELSE IF groups /\ GroupThrows(list) THEN Generated(TRUE, 0, 0)
    ELSE LET g == IF reply \in {"throws", "unparsable"} THEN Generated(TRUE, 1, 1)
                  ELSE IF needsList /\ reply = "empty" THEN Generated(TRUE, 1, 0)
                  ELSE Generated(FALSE, 1, 0)
         IN  [g EXCEPT !.prompts = <<prompt>>]

\* JSON.parse(response.choices[0].message.content || '{}') of a reply that
\* parses: the three keys the forecast reads, in tenths
ForecastResult(reply) ==
    CASE reply = "complete" ->
            [totalExpense |-> JsNumber(1235), categoryBreakdown |-> JsObject("breakdown"),
             confidence |-> JsNumber(8)]
      [] reply = "zeroConfidence" ->
            [totalExpense |-> JsNumber(1234), categoryBreakdown |-> JsObject("breakdown"),
             confidence |-> JsNumber(0)]
      [] reply = "zeroExpense" ->
            [totalExpense |-> JsNumber(0), categoryBreakdown |-> JsObject("{}"),
             confidence |-> JsNumber(10)]
      [] reply = "confidenceOnly" ->
            [totalExpense |-> Undefined, categoryBreakdown |-> Undefined,
             confidence |-> JsNumber(3)]
      [] OTHER ->
            [totalExpense |-> Undefined, categoryBreakdown |-> Undefined,
             confidence |-> Undefined]

ForecastReplies == LLMReplies \cup {"zeroConfidence", "zeroExpense", "confidenceOnly"}

TenthsPerUnit == 10
DefaultConfidence == 5

\* Math.round(x) of a number in tenths, in tenths
MathRound(v) == JsNumber(TenthsPerUnit * RoundDiv(v.n, TenthsPerUnit))

\* totalExpense: Math.round(result.totalExpense || 0),
\* categoryBreakdown: result.categoryBreakdown || {}, confidence: result.confidence || 0.5
ParseForecast(result) ==
    Forecast(MathRound(IF Truthy(result.totalExpense) THEN result.totalExpense
                       ELSE JsNumber(0)),
             IF Truthy(result.categoryBreakdown) THEN result.categoryBreakdown
             ELSE JsObject("{}"),
             IF Truthy(result.confidence) THEN result.confidence
             ELSE JsNumber(DefaultConfidence))

generateSpendingForecast(list, reply) ==
    LET g == Generate(list, ForecastMinTransactions, TRUE, FALSE, reply,
                      Prompt("spendingForecast", formattedTransactions(list),
                             categoryTotals(list), <<>>, Rupees(0)))
    IN  IF g.isNull THEN g
        ELSE [g EXCEPT !.forecast = ParseForecast(ForecastResult(reply))]

generateBudgetSuggestions(list, reply) ==
    Generate(list, BudgetMinTransactions, TRUE, TRUE, reply,
             Prompt("budgetSuggestions", <<>>, categorySpending(list), <<>>, Rupees(0)))

generateSavingsGoal(list, reply) ==
    Generate(list, SavingsMinTransactions, TRUE, FALSE, reply,
             Prompt("savingsGoals", <<>>, categoryAnalysis(list), <<>>, Rupees(0)))

detectBillRemindersMutLowThreshold(list, reply) ==
    Generate(list, ForecastMinTransactions, FALSE, TRUE, reply,
             Prompt("billReminders", formattedTransactions(list), <<>>, <<>>, Rupees(0)))

detectBillReminders(list, reply) ==
    Generate(list, BillMinTransactions, FALSE, TRUE, reply,
             Prompt("billReminders", formattedTransactions(list), <<>>, <<>>, Rupees(0)))

detectSpendingPatterns(list, reply) ==
    Generate(list, PatternMinTransactions, FALSE, TRUE, reply,
             Prompt("spendingPatterns", Slice(formattedTransactions(list), PatternSample),
                    <<>>, dayOfWeekDistribution(list),
                    SumRupees(formattedTransactions(list))))

AIKeys == <<"spendingForecast", "budgetSuggestions", "savingsGoals",
            "billReminders", "spendingPatterns">>

generateAllInsightsMutForecastOnly(list, replies) ==
    LET g == <<generateSpendingForecast(list, replies[1])>>
    IN  [keys |-> {AIKeys[i] : i \in {j \in 1..Len(g) : ~g[j].isNull}},
         calls |-> g[1].calls,
         failed |-> g[1].failed,
         prompts |-> g[1].prompts,
         forecast |-> g[1].forecast]

\* Promise.all of the five generators; a key is set for each non-null result
generateAllInsights(list, replies) ==
    LET g == <<generateSpendingForecast(list, replies[1]),
               generateBudgetSuggestions(list, replies[2]),
               generateSavingsGoal(list, replies[3]),
               detectBillReminders(list, replies[4]),
               detectSpendingPatterns(list, replies[5])>>
    IN  [keys |-> {AIKeys[i] : i \in {j \in 1..Len(g) : ~g[j].isNull}},
         calls |-> g[1].calls + g[2].calls + g[3].calls + g[4].calls + g[5].calls,
         failed |-> g[1].failed + g[2].failed + g[3].failed + g[4].failed + g[5].failed,
         prompts |-> g[1].prompts \o g[2].prompts \o g[3].prompts \o g[4].prompts
                     \o g[5].prompts,
         forecast |-> g[1].forecast]

\* GET /api/ai-insights
GetAiInsightsHandler(store, nextId, user, replies) ==
    LET list == getTransactions(store, user)
        all == generateAllInsights(list, replies)
    IN  IF Len(list) < AllInsightsMinTransactions
        THEN Out([Response("GET /api/ai-insights", user, 200, "message")
                     EXCEPT !.message = "Add more transactions to receive AI-powered financial insights"],
                 [NoEffect EXCEPT !.reads = 1], store, nextId)
        ELSE Out([Response("GET /api/ai-insights", user, 200, "aiInsights")
                     EXCEPT !.ai = [keys |-> all.keys, forecast |-> all.forecast]],
                 [NoEffect EXCEPT !.reads = 1, !.llm = all.calls, !.failed = all.failed,
                                  !.prompts = all.prompts],
                 store, nextId)

\* the five routes GET /api/ai-insights/<name>: the generator's result, or a
\* message when it is null
AiRouteAnswer(route, user, key, message, g, store, nextId) ==
    IF g.isNull
    THEN Out([Response(route, user, 200, "message")
                 EXCEPT !.message = message],
             [NoEffect EXCEPT !.reads = 1, !.llm = g.calls, !.failed = g.failed,
                              !.prompts = g.prompts],
             store, nextId)
    ELSE Out([Response(route, user, 200, "aiInsights")
                 EXCEPT !.ai = [keys |-> {key}, forecast |-> g.forecast]],
             [NoEffect EXCEPT !.reads = 1, !.llm = g.calls, !.failed = g.failed,
                              !.prompts = g.prompts],
             store, nextId)

GetSpendingForecastHandler(store, nextId, user, reply) ==
    AiRouteAnswer("GET /api/ai-insights/spending-forecast", user, AIKeys[1],
                  "Not enough transaction data to generate a spending forecast",
                  generateSpendingForecast(getTransactions(store, user), reply),
                  store, nextId)

GetBudgetSuggestionsHandler(store, nextId, user, reply) ==
    AiRouteAnswer("GET /api/ai-insights/budget-suggestions", user, AIKeys[2],
                  "Not enough transaction data to generate budget suggestions",
                  generateBudgetSuggestions(getTransactions(store, user), reply),
                  store, nextId)

GetSavingsGoalsHandler(store, nextId, user, reply) ==
    AiRouteAnswer("GET /api/ai-insights/savings-goals", user, AIKeys[3],
                  "Not enough transaction data to generate a savings goal",
                  generateSavingsGoal(getTransactions(store, user), reply),
                  store, nextId)

GetBillRemindersHandler(store, nextId, user, reply) ==
    AiRouteAnswer("GET /api/ai-insights/bill-reminders", user, AIKeys[4],
                  "Not enough transaction data to detect recurring bills",
                  detectBillReminders(getTransactions(store, user), reply),
                  store, nextId)

GetSpendingPatternsHandler(store, nextId, user, reply) ==
    AiRouteAnswer("GET /api/ai-insights/spending-patterns", user, AIKeys[5],
                  "Not enough transaction data to detect spending patterns",
                  detectSpendingPatterns(getTransactions(store, user), reply),
                  store, nextId)

-----------------------------------------------------------------------------
(* The client: pages, the analytics page's month and the query cache *)

\* the analytics page is not mounted: it holds no state
NoMonth == [year |-> 0 - 1, month |-> 0 - 1]

MonthOf(t) == [year |-> getFullYear(t), month |-> getMonth(t)]

prevMonthMutKeepYear(prev) ==
    IF prev.month = 0
    THEN [year |-> prev.year, month |-> MonthsPerYear - 1]
    ELSE [year |-> prev.year, month |-> prev.month - 1]

\* AnalyticsPage.prevMonth: setSelectedMonth(prev => ...)
prevMonth(prev) ==
    IF prev.month = 0
    THEN [year |-> prev.year - 1, month |-> MonthsPerYear - 1]
    ELSE [year |-> prev.year, month |-> prev.month - 1]

\* AnalyticsPage.nextMonth: returns early in the current month of the clock it
\* reads.  A click is handled and the page rendered again before the next
\* click is, so the handler's selectedMonth is the state it updates.
nextMonth(selected, clock) ==
    IF selected.year = getFullYear(clock) /\ selected.month = getMonth(clock)
    THEN selected
    ELSE IF selected.month = MonthsPerYear - 1
         THEN [year |-> selected.year + 1, month |-> 0]
         ELSE [year |-> selected.year, month |-> selected.month + 1]

\* the next button's disabled attribute, computed at the last render
Disabled(selected, rendered) ==
    selected.year = getFullYear(rendered) /\ selected.month = getMonth(rendered)

\* query keys
TransactionsKey == <<"/api/transactions">>
DashboardKey == <<"/api/dashboard">>
InsightsKey == <<"/api/insights">>
AiInsightsKey == <<"/api/ai-insights">>
MonthKey(year, month) == <<"/api/transactions/month", year, month>>

\* a cached query: invalidated is the cache's own mark; behind says its data
\* was fetched before a transaction that belongs in it was created
Fetched == [invalidated |-> FALSE, behind |-> FALSE]

\* the queries a page's components observe
PageQueries(route, selected) ==
    CASE route = "/" -> {DashboardKey, TransactionsKey, InsightsKey}
      [] route = "/analytics" -> {MonthKey(selected.year, selected.month)}
      [] route = "/ai-insights" -> {AiInsightsKey}

\* useQuery when a component mounts or its key changes: fetch what is not
\* cached, fetch again what is invalidated or older than its staleTime
\* (timedOut), serve the rest from the cache
Observe(cache, keys, timedOut) ==
    [k \in (DOMAIN cache) \cup keys |->
        IF k \notin keys THEN cache[k]
        ELSE IF k \notin DOMAIN cache THEN Fetched
        ELSE IF cache[k].invalidated \/ timedOut THEN Fetched
        ELSE cache[k]]

\* a filter matches the keys it is a prefix of
Matches(filter, key) ==
    /\ Len(filter) <= Len(key)
    /\ \A i \in 1..Len(filter) : key[i] = filter[i]

\* queryClient.invalidateQueries({queryKey: filter})
invalidateQueries(cache, filter) ==
    [k \in DOMAIN cache |->
        IF Matches(filter, k) THEN [cache[k] EXCEPT !.invalidated = TRUE] ELSE cache[k]]

\* the server now holds one more transaction, dated date: the cached results
\* that would list or count it are out of date
Created(cache, date) ==
    [k \in DOMAIN cache |->
        IF \/ k \in {TransactionsKey, DashboardKey, InsightsKey, AiInsightsKey}
           \/ (date # InvalidDate /\ k = MonthKey(getFullYear(date), getMonth(date)))
        THEN [cache[k] EXCEPT !.behind = TRUE] ELSE cache[k]]

\* createTransaction.onSuccess of the expense form
onSuccess(cache, clock) ==
    LET currentYear == getFullYear(clock)
        currentMonth == getMonth(clock)
    IN  invalidateQueries(
            invalidateQueries(
                invalidateQueries(
                    invalidateQueries(cache, TransactionsKey),
                    DashboardKey),
                MonthKey(currentYear, currentMonth)),
            InsightsKey)

-----------------------------------------------------------------------------
(* The requests the model sends *)

Dining == JsString("dining", 0)

\* a date string new Date() reads as instant t, and one it cannot read
DateString(t) == JsString("iso", t)
GarbageDate == JsString("garbage", InvalidDate)

EarlierThisMonth == StartTick - 1
PreviousMonth == StartTick - TicksPerMonth
NextMonth == StartTick + 1
SameMonthLastYear == StartTick - MonthsPerYear * TicksPerMonth

\* keys the schema does not know: a userId and an id of the client's choosing
ExtraInputs == {<<Undefined, Undefined>>} \cup {<<JsNumber(u), JsNumber(u)>> : u \in Users}

Body(amount, isIncome, date) ==
    RequestBody(JsNumber(amount), Dining, isIncome, date, Undefined, Undefined)

\* a body in any category
BodyIn(amount, category, isIncome, date) ==
    RequestBody(JsNumber(amount), JsString(category, 0), isIncome, date, Undefined, Undefined)

\* bodies the schema accepts, differing in amount, kind and date
StoreBodies ==
    {Body(2, JsBoolean(FALSE), DateString(StartTick)),
     Body(3, JsBoolean(TRUE), DateString(EarlierThisMonth)),
     Body(4, Undefined, DateString(NextMonth)),
     Body(2, JsBoolean(FALSE), GarbageDate),
     Body(-1, JsBoolean(TRUE), DateString(SameMonthLastYear)),
     Body(2, JsBoolean(FALSE), DateString(PreviousMonth))}

WithExtras(bodies) ==
    {[b EXCEPT !.userId = e[1], !.id = e[2]] : b \in bodies, e \in ExtraInputs}

\* bodies the schema refuses
InvalidBodies ==
    {RequestBody(Undefined, Dining, JsBoolean(FALSE), DateString(StartTick), Undefined, Undefined),
     RequestBody(JsString("12", 0), Dining, JsBoolean(FALSE), DateString(StartTick), Undefined, Undefined),
     RequestBody(JsNumber(2), Undefined, JsBoolean(FALSE), DateString(StartTick), Undefined, Undefined),
     RequestBody(JsNumber(2), Dining, JsString("yes", 0), DateString(StartTick), Undefined, Undefined),
     RequestBody(JsNumber(2), Dining, JsBoolean(FALSE), Undefined, Undefined, Undefined),
     RequestBody(JsNumber(2), Dining, JsBoolean(FALSE), JsNumber(StartTick), Undefined, Undefined),
     RequestBody(Undefined, Undefined, Undefined, Undefined, JsNumber(1), Undefined)}

\* the bodies of POST /api/transactions, accepted and refused
AllBodies ==
    StoreBodies
    \cup WithExtras({Body(2, JsBoolean(FALSE), DateString(StartTick))})
    \cup InvalidBodies

\* under SpecStore: the first user posts every body, the second user a few
StorePosts ==
    ({1} \X AllBodies)
    \cup ({2} \X (WithExtras({Body(2, JsBoolean(FALSE), DateString(StartTick))})
                  \cup {Body(3, JsBoolean(TRUE), DateString(EarlierThisMonth)),
                        Body(4, Undefined, DateString(NextMonth)),
                        RequestBody(Undefined, Dining, JsBoolean(FALSE),
                                    DateString(StartTick), Undefined, Undefined)}))

\* under Spec: every session posts one of three bodies
ThinPosts ==
    Sessions \X
    {Body(2, JsBoolean(FALSE), DateString(StartTick)),
     Body(3, JsBoolean(TRUE), DateString(PreviousMonth)),
     RequestBody(Undefined, Undefined, Undefined, Undefined, JsNumber(1), Undefined)}

\* :year and :month as the characters of the URL segment
YearInputs == {<<"0">>, <<"1">>, <<"2">>}
MonthInputs == {<<"0">>, <<"1", "0">>, <<"1", "1">>}
OddInputs ==
    {<<"1", "2">>, <<"-", "1">>, <<"-", "0">>, <<"a">>, <<"1", "a">>, <<" ", "1">>,
     <<"+", "1">>, <<"0", "x", "b">>, <<"0", "x">>, <<"1", ".", "9">>, <<"1", "1", "x">>}
ParamInputs ==
    (YearInputs \X MonthInputs)
    \cup ({<<"1">>} \X OddInputs)
    \cup (OddInputs \X {<<"1", "1">>})
    \cup {<<<<"a">>, <<"a">>>>}

\* the ones the month route is asked with
RequestParams ==
    (YearInputs \X MonthInputs)
    \cup {<<<<"1">>, <<"1", "2">>>>, <<<<"1">>, <<"-", "1">>>>, <<<<"a">>, <<"1", "1">>>>}

\* the replies to the five calls of generateAllInsights
ReplyVectors ==
    {<<r, r, r, r, r>> : r \in LLMReplies}
    \cup {[i \in 1..5 |-> IF i = k THEN r ELSE "complete"] :
            k \in 1..5, r \in {"throws", "empty"}}

\* under SpecAI: the first RichTxAI transactions vary, the rest repeat one expense
RichPostsAI ==
    {<<1, Body(2, JsBoolean(FALSE), DateString(StartTick))>>,
     <<1, Body(7, JsBoolean(TRUE), DateString(StartTick))>>,
     <<1, Body(2, JsBoolean(FALSE), GarbageDate)>>,
     <<1, Body(2, JsBoolean(TRUE), GarbageDate)>>,
     <<2, Body(2, JsBoolean(FALSE), DateString(StartTick))>>,
     <<1, BodyIn(3, "travel", JsBoolean(FALSE), DateString(PreviousMonth))>>,
     <<1, BodyIn(3, "constructor", JsBoolean(FALSE), DateString(StartTick))>>}
FillerPostsAI == {<<1, Body(2, JsBoolean(FALSE), DateString(StartTick))>>}

\* under SpecInsights: one expense last month, this month's expenses in the
\* same category (24.5% below; two of them 51% above) and in three new ones,
\* and an income
InsightPosts ==
    {<<1, BodyIn(53, "dining", JsBoolean(FALSE), DateString(PreviousMonth))>>,
     <<1, BodyIn(40, "dining", JsBoolean(FALSE), DateString(EarlierThisMonth))>>,
     <<1, BodyIn(10, "travel", JsBoolean(FALSE), DateString(StartTick))>>,
     <<1, BodyIn(10, "rent", JsBoolean(FALSE), DateString(StartTick))>>,
     <<1, BodyIn(10, "fuel", JsBoolean(FALSE), DateString(StartTick))>>,
     <<1, BodyIn(500, "dining", JsBoolean(TRUE), DateString(PreviousMonth))>>}

\* under SpecCreates: accepted bodies of two users, and the users to create
CreatePosts ==
    {<<1, Body(2, JsBoolean(FALSE), DateString(StartTick))>>,
     <<2, Body(3, JsBoolean(TRUE), DateString(EarlierThisMonth))>>}
InsertUsers ==
    {[username |-> "asha", password |-> "pw1"],
     [username |-> "asha", password |-> "pw2"],
     [username |-> "ravi", password |-> "pw1"]}

\* the client's routes, and the dates the expense form submits
Pages == {"/", "/analytics", "/ai-insights"}
FormDates == {StartTick, PreviousMonth}

-----------------------------------------------------------------------------
(* The state machine *)

Init ==
    /\ transactions = <<>>
    /\ currentTransactionId = 1
    /\ now = StartTick
    /\ res = Response("", Anonymous, 0, "none")
    /\ fx = NoEffect
    /\ users = <<>>
    /\ currentUserId = 1
    /\ pending = <<>>
    /\ page = "/"
    /\ selectedMonth = NoMonth
    /\ currentDate = StartTick
    /\ queries = <<>>

Serve(out) ==
    /\ res' = out.res
    /\ fx' = out.fx
    /\ transactions' = out.store
    /\ currentTransactionId' = out.nextId
    /\ UNCHANGED <<now, userVars, pending, clientVars>>

Tick ==
    /\ now < StartTick + MaxTicks
    /\ now' = now + 1
    /\ UNCHANGED <<serverVars, userVars, pending, clientVars>>

GetTransactions(sessions) ==
    \E user \in sessions :
        Serve(Route("GET /api/transactions", user, transactions, currentTransactionId,
                    GetTransactionsHandler(transactions, currentTransactionId, user)))

PostTransactions(posts) ==
    /\ currentTransactionId <= MaxTx
    /\ \E post \in posts :
        Serve(Route("POST /api/transactions", post[1], transactions, currentTransactionId,
                    PostTransactionsHandler(transactions, currentTransactionId,
                                            post[1], post[2], now)))

PostTransactionsAI ==
    /\ currentTransactionId <= MaxTxAI
    /\ \E post \in IF currentTransactionId <= RichTxAI THEN RichPostsAI ELSE FillerPostsAI :
        Serve(Route("POST /api/transactions", post[1], transactions, currentTransactionId,
                    PostTransactionsHandler(transactions, currentTransactionId,
                                            post[1], post[2], now)))

PostTransactionsInsights ==
    /\ currentTransactionId <= MaxTxInsights
    /\ \E post \in InsightPosts :
        Serve(Route("POST /api/transactions", post[1], transactions, currentTransactionId,
                    PostTransactionsHandler(transactions, currentTransactionId,
                                            post[1], post[2], now)))

GetTransactionsByMonth(sessions) ==
    \E user \in sessions, params \in RequestParams :
        Serve(Route("GET /api/transactions/month", user, transactions, currentTransactionId,
                    GetTransactionsByMonthHandler(transactions, currentTransactionId, user,
                                                  params[1], params[2])))

GetInsights(sessions) ==
    \E user \in sessions, tipIndex \in 0..(NumTips - 1) :
        Serve(Route("GET /api/insights", user, transactions, currentTransactionId,
                    GetInsightsHandler(transactions, currentTransactionId, user, now, tipIndex)))

GetAiInsights(sessions) ==
    \E user \in sessions, replies \in ReplyVectors :
        Serve(Route("GET /api/ai-insights", user, transactions, currentTransactionId,
                    GetAiInsightsHandler(transactions, currentTransactionId, user, replies)))

GetSpendingForecast(sessions) ==
    \E user \in sessions, reply \in ForecastReplies :
        Serve(Route("GET /api/ai-insights/spending-forecast", user, transactions,
                    currentTransactionId,
                    GetSpendingForecastHandler(transactions, currentTransactionId, user, reply)))

GetBudgetSuggestions(sessions) ==
    \E user \in sessions, reply \in LLMReplies :
        Serve(Route("GET /api/ai-insights/budget-suggestions", user, transactions,
                    currentTransactionId,
                    GetBudgetSuggestionsHandler(transactions, currentTransactionId, user, reply)))

GetSavingsGoals(sessions) ==
    \E user \in sessions, reply \in LLMReplies :
        Serve(Route("GET /api/ai-insights/savings-goals", user, transactions,
                    currentTransactionId,
                    GetSavingsGoalsHandler(transactions, currentTransactionId, user, reply)))

GetBillReminders(sessions) ==
    \E user \in sessions, reply \in LLMReplies :
        Serve(Route("GET /api/ai-insights/bill-reminders", user, transactions,
                    currentTransactionId,
                    GetBillRemindersHandler(transactions, currentTransactionId, user, reply)))

GetSpendingPatterns(sessions) ==
    \E user \in sessions, reply \in LLMReplies :
        Serve(Route("GET /api/ai-insights/spending-patterns", user, transactions,
                    currentTransactionId,
                    GetSpendingPatternsHandler(transactions, currentTransactionId, user, reply)))

GetDashboard(sessions) ==
    \E user \in sessions :
        Serve(Route("GET /api/dashboard", user, transactions, currentTransactionId,
                    GetDashboardHandler(transactions, currentTransactionId, user, now)))

\* every route, asked with and without a session
Next ==
    \/ Tick
    \/ GetTransactions(Sessions)
    \/ PostTransactions(ThinPosts)
    \/ GetTransactionsByMonth(Sessions)
    \/ GetInsights(Sessions)
    \/ GetAiInsights(Sessions)
    \/ GetSpendingForecast(Sessions)
    \/ GetBudgetSuggestions(Sessions)
    \/ GetSavingsGoals(Sessions)
    \/ GetBillReminders(Sessions)
    \/ GetSpendingPatterns(Sessions)
    \/ GetDashboard(Sessions)

Spec == Init /\ [][Next]_vars

\* the transaction routes and the dashboard, asked by the users, over varied transactions
NextStore ==
    \/ Tick
    \/ GetTransactions(Users)
    \/ PostTransactions(StorePosts)
    \/ GetTransactionsByMonth(Users)
    \/ GetDashboard(Users)

SpecStore == Init /\ [][NextStore]_vars

\* the AI routes with enough transactions to pass the generators' thresholds
NextAI ==
    \/ PostTransactionsAI
    \/ GetAiInsights(Users)
    \/ GetSpendingForecast(Users)
    \/ GetBudgetSuggestions(Users)
    \/ GetSavingsGoals(Users)
    \/ GetBillReminders(Users)
    \/ GetSpendingPatterns(Users)

SpecAI == Init /\ [][NextAI]_vars

\* A create in flight.  A handler runs without interruption from one await
\* to the next: POST /api/transactions is received, later runs up to its
\* await of storage.createTransaction (whose body has no await of its own, so
\* it takes the id and sets the map entry in that same run), and later still
\* resumes and answers.  storage.createUser is called and resolves likewise.
Request(kind, session, input) ==
    [kind |-> kind, session |-> session, input |-> input, phase |-> "received",
     id |-> 0, res |-> Response("", Anonymous, 0, "none"), fx |-> NoEffect]

InFlight(kind) ==
    Cardinality({i \in 1..Len(pending) :
                    pending[i].kind = kind /\ pending[i].phase = "received"})

Remove(seq, i) == SubSeq(seq, 1, i - 1) \o SubSeq(seq, i + 1, Len(seq))

ReceivePostTransactions ==
    /\ Len(pending) < MaxPending
    /\ currentTransactionId + InFlight("transaction") <= MaxCreates
    /\ \E post \in CreatePosts :
        pending' = Append(pending, Request("transaction", post[1], post[2]))
    /\ UNCHANGED <<serverVars, now, userVars, clientVars>>

RunPostTransactions ==
    \E i \in 1..Len(pending) :
        /\ pending[i].kind = "transaction"
        /\ pending[i].phase = "received"
        /\ LET out == Route("POST /api/transactions", pending[i].session, transactions,
                            currentTransactionId,
                            PostTransactionsHandler(transactions, currentTransactionId,
                                                    pending[i].session, pending[i].input,
                                                    now))
           IN  /\ transactions' = out.store
               /\ currentTransactionId' = out.nextId
               /\ pending' = [pending EXCEPT ![i].phase = "created",
                                             ![i].id = out.res.items[1].id,
                                             ![i].res = out.res,
                                             ![i].fx = out.fx]
        /\ UNCHANGED <<res, fx, now, userVars, clientVars>>

AnswerPostTransactions ==
    \E i \in 1..Len(pending) :
        /\ pending[i].kind = "transaction"
        /\ pending[i].phase = "created"
        /\ res' = pending[i].res
        /\ fx' = pending[i].fx
        /\ pending' = Remove(pending, i)
        /\ UNCHANGED <<transactions, currentTransactionId, now, userVars, clientVars>>

CallCreateUser ==
    /\ Len(pending) < MaxPending
    /\ currentUserId + InFlight("user") <= MaxCreates
    /\ \E insertUser \in InsertUsers :
        pending' = Append(pending, Request("user", Anonymous, insertUser))
    /\ UNCHANGED <<serverVars, now, userVars, clientVars>>

RunCreateUser ==
    \E i \in 1..Len(pending) :
        /\ pending[i].kind = "user"
        /\ pending[i].phase = "received"
        /\ LET created == createUser(users, currentUserId, pending[i].input)
           IN  /\ users' = created.users
               /\ currentUserId' = created.nextId
               /\ pending' = [pending EXCEPT ![i].phase = "created",
                                             ![i].id = created.user.id]
        /\ UNCHANGED <<serverVars, now, clientVars>>

ResolveCreateUser ==
    \E i \in 1..Len(pending) :
        /\ pending[i].kind = "user"
        /\ pending[i].phase = "created"
        /\ pending' = Remove(pending, i)
        /\ UNCHANGED <<serverVars, now, userVars, clientVars>>

\* creates of transactions and of users, interleaved at their awaits
NextCreates ==
    \/ ReceivePostTransactions
    \/ RunPostTransactions
    \/ AnswerPostTransactions
    \/ CallCreateUser
    \/ RunCreateUser
    \/ ResolveCreateUser

SpecCreates == Init /\ [][NextCreates]_vars

\* The client.  Navigating mounts the page's components; the analytics page
\* starts in the month of the clock.
Navigate ==
    \E route \in Pages \ {page}, timedOut \in BOOLEAN :
        LET selected == IF route = "/analytics" THEN MonthOf(now) ELSE NoMonth
        IN  /\ page' = route
            /\ selectedMonth' = selected
            /\ currentDate' = now
            /\ queries' = Observe(queries, PageQueries(route, selected), timedOut)
            /\ UNCHANGED <<serverVars, now, userVars, pending>>

\* the first load of the page at "/"
Load ==
    /\ queries = <<>>
    /\ page = "/"
    /\ queries' = Observe(queries, PageQueries("/", NoMonth), FALSE)
    /\ UNCHANGED <<serverVars, now, userVars, pending, page, selectedMonth, currentDate>>

ClickPrevMonth ==
    /\ page = "/analytics"
    /\ (getFullYear(now) * MonthsPerYear + getMonth(now))
         - (selectedMonth.year * MonthsPerYear + selectedMonth.month) < MaxMonthsBack
    /\ \E timedOut \in BOOLEAN :
        LET selected == prevMonth(selectedMonth)
        IN  /\ selectedMonth' = selected
            /\ currentDate' = now
            /\ queries' = Observe(queries, PageQueries(page, selected), timedOut)
    /\ UNCHANGED <<serverVars, now, userVars, pending, page>>

ClickNextMonth ==
    /\ page = "/analytics"
    /\ ~Disabled(selectedMonth, currentDate)
    /\ nextMonth(selectedMonth, now) # selectedMonth
    /\ \E timedOut \in BOOLEAN :
        LET selected == nextMonth(selectedMonth, now)
        IN  /\ selectedMonth' = selected
            /\ currentDate' = now
            /\ queries' = Observe(queries, PageQueries(page, selected), timedOut)
    /\ UNCHANGED <<serverVars, now, userVars, pending, page>>

\* the expense form, on the page at "/", created a transaction dated date
SubmitExpense ==
    /\ page = "/"
    /\ \E date \in FormDates :
        queries' = onSuccess(Created(queries, date), now)
    /\ UNCHANGED <<serverVars, now, userVars, pending, page, selectedMonth, currentDate>>

\* an invalidated query that a mounted component observes is fetched again
Refetch ==
    \E k \in PageQueries(page, selectedMonth) \cap DOMAIN queries :
        /\ queries[k].invalidated
        /\ queries' = [queries EXCEPT ![k] = Fetched]
        /\ UNCHANGED <<serverVars, now, userVars, pending, page, selectedMonth, currentDate>>

\* a query no component observes is dropped from the cache after a while
Collect ==
    \E k \in (DOMAIN queries) \ PageQueries(page, selectedMonth) :
        /\ queries' = [x \in (DOMAIN queries) \ {k} |-> queries[x]]
        /\ UNCHANGED <<serverVars, now, userVars, pending, page, selectedMonth, currentDate>>

NextClient ==
    \/ Tick
    \/ Load
    \/ Navigate
    \/ ClickPrevMonth
    \/ ClickNextMonth
    \/ SubmitExpense
    \/ Refetch
    \/ Collect

SpecClient == Init /\ [][NextClient]_vars

\* the rule-based insights over a month and the month before it
NextInsights ==
    \/ PostTransactionsInsights
    \/ GetInsights(Users)

SpecInsights == Init /\ [][NextInsights]_vars

-----------------------------------------------------------------------------
(* What the claims are stated over *)

Stored == {transactions[id] : id \in DOMAIN transactions}
OwnedBy(user) == {t \in Stored : t.userId = user}

RECURSIVE SumAmounts(_)
SumAmounts(set) ==
    IF set = {} THEN 0
    ELSE LET t == CHOOSE x \in set : TRUE
         IN  t.amount + SumAmounts(set \ {t})

IsIncome(t) == t.isIncome.k = "boolean" /\ t.isIncome.b

InCalendarMonth(t, year, month) ==
    /\ t.date # InvalidDate
    /\ t.date \div TicksPerMonth = year * MonthsPerYear + month

ItemSet(items) == {items[i] : i \in 1..Len(items)}

\* d1 is before d2; an Invalid Date is neither before nor after anything
Before(d1, d2) == d1 # InvalidDate /\ d2 # InvalidDate /\ d1 < d2

AiRoutes ==
    {"GET /api/ai-insights", "GET /api/ai-insights/spending-forecast",
     "GET /api/ai-insights/budget-suggestions", "GET /api/ai-insights/savings-goals",
     "GET /api/ai-insights/bill-reminders", "GET /api/ai-insights/spending-patterns"}

\* the store with every other user's transactions removed
Restrict(store, user) ==
    [id \in {i \in DOMAIN store : store[i].userId = user} |-> store[id]]

\* everything a user can read of the transactions
ReadsOf(user, store, clock) ==
    [list |-> GetTransactionsHandler(store, 0, user).res.items,
     summary |-> GetDashboardHandler(store, 0, user, clock).res.summary,
     months |-> [p \in YearInputs \X MonthInputs |->
                   GetTransactionsByMonthHandler(store, 0, user, p[1], p[2]).res.items]]

IsExpense(t) == t.isIncome.k = "boolean" /\ ~t.isIncome.b

NewestFirst(list) ==
    \A i \in 1..(Len(list) - 1) : ~Before(list[i].date, list[i + 1].date)

\* the threshold of the generator a route runs
MinTransactions(route) ==
    CASE route = "GET /api/ai-insights/spending-forecast" -> ForecastMinTransactions
      [] route = "GET /api/ai-insights/budget-suggestions" -> BudgetMinTransactions
      [] route = "GET /api/ai-insights/savings-goals" -> SavingsMinTransactions
      [] route = "GET /api/ai-insights/bill-reminders" -> BillMinTransactions
      [] route = "GET /api/ai-insights/spending-patterns" -> PatternMinTransactions

\* an expense whose date toISOString() cannot format
UnreadableExpense(user) ==
    \E t \in OwnedBy(user) : ~IsIncome(t) /\ t.date = InvalidDate

\* an expense whose category is a name every object inherits
UngroupableExpense(user) ==
    \E t \in OwnedBy(user) : ~IsIncome(t) /\ t.category \in InheritedKeys

\* the routes whose generator groups the expenses by category
GroupingRoutes ==
    {"GET /api/ai-insights/spending-forecast", "GET /api/ai-insights/budget-suggestions",
     "GET /api/ai-insights/savings-goals"}

\* the generator of a route reaches its call to the hosted model
Calls(user, route) ==
    /\ Cardinality(OwnedBy(user)) >= MinTransactions(route)
    /\ ~UnreadableExpense(user)
    /\ ~(route \in GroupingRoutes /\ UngroupableExpense(user))

\* how many of the five generators reach their call
GeneratorsRun(user) ==
    Cardinality({r \in AiRoutes \ {"GET /api/ai-insights"} : Calls(user, r)})

\* the thresholds, by key of the combined answer and by route
KeyThresholds ==
    {<<"spendingForecast", ForecastMinTransactions>>,
     <<"budgetSuggestions", BudgetMinTransactions>>,
     <<"savingsGoals", SavingsMinTransactions>>,
     <<"billReminders", BillMinTransactions>>,
     <<"spendingPatterns", PatternMinTransactions>>}

RouteThresholds ==
    {<<r, MinTransactions(r)>> : r \in AiRoutes \ {"GET /api/ai-insights"}}

\* a user's expense total of a category in a calendar month
ExpenseTotal(user, year, month, category) ==
    SumAmounts({t \in OwnedBy(user) :
                    /\ ~IsIncome(t)
                    /\ InCalendarMonth(t, year, month)
                    /\ t.category = category})

\* the categories a user spent in during a calendar month
SpentIn(user, year, month) ==
    {t.category : t \in {x \in OwnedBy(user) :
                            ~IsIncome(x) /\ InCalendarMonth(x, year, month)}}

\* the month before the one the clock is in
MonthBefore(clock) ==
    IF getMonth(clock) = 0
    THEN [year |-> getFullYear(clock) - 1, month |-> MonthsPerYear - 1]
    ELSE [year |-> getFullYear(clock), month |-> getMonth(clock) - 1]

\* the answer of GET /api/insights holds an insight of this type for the category
HasInsight(insights, type, category) ==
    \E i \in 1..Len(insights) :
        insights[i].type = type /\ insights[i].category = category

\* the user's transactions of the month before the clock's
PreviousMonthData(user, clock) ==
    {t \in OwnedBy(user) :
        InCalendarMonth(t, MonthBefore(clock).year, MonthBefore(clock).month)}

\* the categories of the current month that produce an insight: new ones, and
\* those whose rounded change reaches the threshold either way
Producing(user, clock) ==
    {c \in SpentIn(user, getFullYear(clock), getMonth(clock)) :
        LET amount == ExpenseTotal(user, getFullYear(clock), getMonth(clock), c)
            previousAmount == ExpenseTotal(user, MonthBefore(clock).year,
                                           MonthBefore(clock).month, c)
        IN  \/ previousAmount = 0
            \/ IncreasePercentage(amount, previousAmount) >= SignificantChange
            \/ IncreasePercentage(amount, previousAmount) <= 0 - SignificantChange}

Min(a, b) == IF a < b THEN a ELSE b

\* a user's transactions that are income, and the others
IncomeOf(user) == {t \in OwnedBy(user) : IsIncome(t)}
ExpensesOf(user) == OwnedBy(user) \ IncomeOf(user)

\* the transactions listed in a prompt, by themselves or under a category
ListedIn(prompt) ==
    ItemSet(prompt.transactions)
    \cup (IF prompt.generator = "budgetSuggestions"
          THEN UNION {ItemSet(prompt.categories[i].transactions) :
                        i \in 1..Len(prompt.categories)}
          ELSE {})

\* the category totals of a prompt added up, in rupees
RECURSIVE SumTotals(_)
SumTotals(entries) ==
    IF entries = <<>> THEN Rupees(0)
    ELSE Rupees(Head(entries).total.n + SumTotals(Tail(entries)).n)

\* a key is missing from the parsed reply
Missing(v) == v.k = "undefined"

-----------------------------------------------------------------------------
\* C1: every route answers a request without a session with 401
\* {message: "Unauthorized"} and its handler does not run: the step reads
\* nothing from storage, writes nothing to it (the store and the id counter
\* are unchanged) and calls no LLM.
C1_UnauthenticatedIs401 ==
    [][(res'.user = Anonymous /\ res'.route # "") =>
        /\ res'.status = 401
        /\ res'.kind = "message"
        /\ res'.message = "Unauthorized"
        /\ fx' = NoEffect
        /\ transactions' = transactions
        /\ currentTransactionId' = currentTransactionId]_vars

C1_Witness ==
    /\ res.route = "POST /api/transactions"
    /\ res.user = Anonymous
    /\ res.status = 401
    /\ transactions # <<>>

\* C2: user isolation.  What a user reads from GET /api/transactions,
\* GET /api/transactions/month and GET /api/dashboard holds only that user's
\* transactions and is the same as it would be with every other user's
\* transactions removed from the store.
C2_UserIsolation ==
    \A a \in Users :
        LET reads == ReadsOf(a, transactions, now)
        IN  /\ reads = ReadsOf(a, Restrict(transactions, a), now)
            /\ \A t \in ItemSet(reads.list) : t.userId = a
            /\ \A p \in YearInputs \X MonthInputs :
                 \A t \in ItemSet(reads.months[p]) : t.userId = a
            /\ (res.kind = "transactions" /\ res.user = a) =>
                 \A t \in ItemSet(res.items) : t.userId = a

C2_Witness ==
    /\ res.route = "GET /api/transactions"
    /\ res.user = 1
    /\ Len(res.items) = 1
    /\ OwnedBy(2) # {}

\* C3: a valid POST /api/transactions by a session user stores exactly one
\* new transaction and leaves the others as they were; its userId is the
\* session user's whatever userId the body carries; the response is 201 with
\* the stored transaction; GET /api/transactions by that user then holds it.
C3_CreateStoresOne ==
    \A user \in Users : \A body \in {b \in AllBodies : ZodErrors(b) = {}} :
        LET out == PostTransactionsHandler(transactions, currentTransactionId,
                                           user, body, now)
            added == (DOMAIN out.store) \ (DOMAIN transactions)
            new == out.store[CHOOSE id \in added : TRUE]
        IN  /\ Cardinality(added) = 1
            /\ DOMAIN transactions \subseteq DOMAIN out.store
            /\ \A id \in DOMAIN transactions : out.store[id] = transactions[id]
            /\ new.userId = user
            /\ new.amount = body.amount.n
            /\ new.date = body.date.n
            /\ out.res.status = 201
            /\ out.res.items = <<new>>
            /\ new \in ItemSet(GetTransactionsHandler(out.store, out.nextId, user).res.items)

C3_Witness ==
    /\ res.route = "POST /api/transactions"
    /\ res.status = 201
    /\ res.user = 2
    /\ Len(res.items) = 1
    /\ res.items[1].userId = 2
    /\ res.items[1] \in OwnedBy(2)
    /\ Cardinality(Stored) = 2

\* C4: a POST /api/transactions whose body fails insertTransactionSchema is
\* answered 400 with the validation errors, and the store is unchanged: no
\* transaction is added and currentTransactionId is not advanced.
C4_InvalidBodyIs400 ==
    \A user \in Users : \A body \in {b \in AllBodies : ZodErrors(b) # {}} :
        LET out == PostTransactionsHandler(transactions, currentTransactionId,
                                           user, body, now)
        IN  /\ out.res.status = 400
            /\ out.res.kind = "errors"
            /\ out.res.errors = ZodErrors(body)
            /\ out.store = transactions
            /\ out.nextId = currentTransactionId
            /\ out.fx.writes = 0

C4_Witness ==
    /\ res.route = "POST /api/transactions"
    /\ res.status = 400
    /\ res.errors = {"amount"}
    /\ fx.writes = 0
    /\ Cardinality(Stored) = 1
    /\ currentTransactionId = 2

C6_MonthRoute ==
    \A user \in Users : \A p \in ParamInputs :
        LET out == GetTransactionsByMonthHandler(transactions, currentTransactionId,
                                                 user, p[1], p[2])
            year == parseInt(p[1])
            month == parseInt(p[2])
            invalid == year.nan \/ month.nan \/ month.n \notin 0..(MonthsPerYear - 1)
            wanted == {t \in OwnedBy(user) : InCalendarMonth(t, year.n, month.n)}
        IN  IF invalid
            THEN /\ out.res.status = 400
                 /\ out.res.message = "Invalid year or month"
                 /\ out.res.items = <<>>
                 /\ out.fx.reads = 0
            ELSE /\ out.res.status = 200
                 /\ ItemSet(out.res.items) = wanted
                 /\ Len(out.res.items) = Cardinality(wanted)

C6_Witness ==
    /\ res.route = "GET /api/transactions/month"
    /\ res.status = 200
    /\ Len(res.items) = 1
    /\ Cardinality(OwnedBy(res.user)) = 2

\* C7: getTransactions and getTransactionsByMonth return their result newest
\* first: in every adjacent pair the earlier element's date is not before the
\* later element's, whatever order the transactions were created in.
C7_NewestFirst ==
    \A user \in Users :
        /\ NewestFirst(getTransactions(transactions, user))
        /\ \A t \in OwnedBy(user) :
             NewestFirst(getTransactionsByMonth(transactions, user,
                                                getFullYear(t.date), getMonth(t.date)))
        /\ (res.kind = "transactions") => NewestFirst(res.items)

C7_Witness ==
    /\ res.route = "GET /api/transactions"
    /\ Len(res.items) = 2
    /\ res.items[1].id > res.items[2].id
    /\ Before(res.items[2].date, res.items[1].date)

\* C8 as claimed: an AI insight request that produced an insight made exactly
\* one chat-completion call.
C8_OneCallPerRequest ==
    (res.route \in AiRoutes /\ res.kind = "aiInsights" /\ res.ai.keys # {}) => fx.llm = 1

\* C8 as amended: an AI insight request makes one chat-completion call per
\* generator it runs whose threshold is met, and no other: a route
\* /api/ai-insights/<name> makes one call when the user has enough transactions,
\* GET /api/ai-insights makes three calls for 5 to 9 transactions and five for
\* 10 or more; none is made below the threshold, nor when an expense of the
\* user holds an unreadable date, nor by the forecast, budget and savings
\* generators when an expense of the user is in a category named like an
\* inherited object property.
C8_OneCallPerGenerator ==
    res.route \in AiRoutes =>
        LET n == Cardinality(OwnedBy(res.user))
        IN  /\ fx.llm = Len(fx.prompts)
            /\ IF res.route = "GET /api/ai-insights"
               THEN fx.llm = (IF n < AllInsightsMinTransactions THEN 0
                              ELSE GeneratorsRun(res.user))
               ELSE fx.llm = (IF Calls(res.user, res.route) THEN 1 ELSE 0)
            /\ (~UnreadableExpense(res.user) /\ ~UngroupableExpense(res.user)) =>
                  IF res.route = "GET /api/ai-insights"
                  THEN fx.llm = (IF n < PatternMinTransactions
                                 THEN (IF n < AllInsightsMinTransactions THEN 0 ELSE 3)
                                 ELSE 5)
                  ELSE fx.llm = (IF n >= MinTransactions(res.route) THEN 1 ELSE 0)

C8_Witness ==
    /\ res.route = "GET /api/ai-insights"
    /\ res.kind = "aiInsights"
    /\ Cardinality(res.ai.keys) = 5
    /\ fx.llm = 5

\* C9 as claimed: when generating an insight fails (the LLM call throws, or its
\* reply is not parseable JSON), the AI insight endpoint answers 500.
C9_FailureIs500 ==
    (res.route \in AiRoutes /\ fx.failed > 0) => res.status = 500

\* C10: with fewer than 5 transactions GET /api/ai-insights answers only the
\* "Add more transactions ..." message and calls no LLM; and below its threshold
\* (5 for forecast, budget and savings goal, 10 for bill reminders and spending
\* patterns) a generator calls no LLM and returns null: its route answers the
\* "not enough data" message and GET /api/ai-insights leaves its key out.
C10_BelowThreshold ==
    LET n == Cardinality(OwnedBy(res.user))
    IN  /\ (res.route = "GET /api/ai-insights" /\ n < AllInsightsMinTransactions) =>
            /\ res.status = 200
            /\ res.kind = "message"
            /\ res.message = "Add more transactions to receive AI-powered financial insights"
            /\ res.ai.keys = {}
            /\ fx.llm = 0
        /\ res.route = "GET /api/ai-insights" =>
            /\ \A k \in KeyThresholds : n < k[2] => k[1] \notin res.ai.keys
            /\ fx.llm <= Cardinality({k \in KeyThresholds : n >= k[2]})
        /\ \A r \in RouteThresholds :
            (res.route = r[1] /\ n < r[2]) =>
                /\ res.kind = "message"
                /\ res.ai.keys = {}
                /\ fx.llm = 0

C10_Witness ==
    /\ res.route = "GET /api/ai-insights/bill-reminders"
    /\ Cardinality(OwnedBy(res.user)) = 9
    /\ ~UnreadableExpense(res.user)
    /\ res.kind = "message"
    /\ fx.llm = 0

\* C13: every transaction held in the store after any sequence of accepted
\* POST /api/transactions requests has amount > 0.
C13_AmountsPositive ==
    \A t \in Stored : t.amount > 0

\* C16: the insights of GET /api/insights hold an "increase" for a category
\* exactly when its expense total of the current month is 25% or more above
\* its non-zero total of the previous month, and a "decrease" exactly when it
\* is 25% or more below; a change of less than 25% produces neither.  Stated
\* for the categories the user spent in during the current month.
C16_ThresholdExact ==
    \A user \in Users :
      \A category \in SpentIn(user, getFullYear(now), getMonth(now)) :
        LET insights == GetInsightsHandler(transactions, currentTransactionId,
                                           user, now, 0).res.insights
            amount == ExpenseTotal(user, getFullYear(now), getMonth(now), category)
            previousAmount == ExpenseTotal(user, MonthBefore(now).year,
                                           MonthBefore(now).month, category)
        IN  /\ HasInsight(insights, "increase", category) <=>
                /\ previousAmount > 0
                /\ (amount - previousAmount) * 100 >= SignificantChange * previousAmount
            /\ HasInsight(insights, "decrease", category) <=>
                /\ previousAmount > 0
                /\ (previousAmount - amount) * 100 >= SignificantChange * previousAmount

\* C17: generateInsights always resolves with between 1 and 3 insights: one
\* welcome tip when the previous month has no transactions, one generic tip
\* when it has but no category produced an insight, one tip when a storage
\* call rejects, and otherwise one insight for each of the first at most 3
\* producing categories, none of them a tip; GET /api/insights answers 200
\* with that list.
C17_OneToThreeInsights ==
    \A user \in Users, tipIndex \in 0..(NumTips - 1), rejects \in BOOLEAN :
        LET currentMonth == [year |-> getFullYear(now), month |-> getMonth(now)]
            insights == generateInsights(transactions, currentMonth, MonthBefore(now),
                                         user, tipIndex, rejects)
            answer == GetInsightsHandler(transactions, currentTransactionId, user, now,
                                         tipIndex).res
            producing == Producing(user, now)
            oneTip(text) ==
                /\ Len(insights) = 1
                /\ insights[1].type = "tip"
                /\ insights[1].text = text
        IN  /\ Len(insights) \in 1..MaxInsights
            /\ rejects => oneTip("Add more transactions")
            /\ (~rejects /\ PreviousMonthData(user, now) = {}) =>
                oneTip("Welcome to your expense tracker!")
            /\ (~rejects /\ PreviousMonthData(user, now) # {} /\ producing = {}) =>
                oneTip(Tips[tipIndex + 1])
            /\ (~rejects /\ PreviousMonthData(user, now) # {} /\ producing # {}) =>
                /\ Len(insights) = Min(MaxInsights, Cardinality(producing))
                /\ \A i \in 1..Len(insights) :
                    /\ insights[i].type \in {"new_category", "increase", "decrease"}
                    /\ insights[i].category \in producing
                /\ \A i, j \in 1..Len(insights) :
                    insights[i].category = insights[j].category => i = j
            /\ ~rejects =>
                /\ answer.status = 200
                /\ answer.insights = insights

C17_Witness ==
    /\ res.route = "GET /api/insights"
    /\ res.status = 200
    /\ Len(res.insights) = MaxInsights
    /\ Cardinality(Producing(res.user, now)) = MaxInsights + 1
    /\ PreviousMonthData(res.user, now) # {}

\* C11: whatever an AI insight request sends to the hosted model comes from the
\* user's expenses only: no transaction with isIncome = true is listed, every
\* category aggregate is the sum over that category's expenses, the
\* day-of-week distribution counts the expenses, and the total is their sum.
C11_OnlyExpensesSent ==
    res.route \in AiRoutes =>
        \A i \in 1..Len(fx.prompts) :
            LET prompt == fx.prompts[i]
                expenses == ExpensesOf(res.user)
            IN  /\ \A t \in ListedIn(prompt) :
                    /\ ~IsIncome(t)
                    /\ t.id \in {x.id : x \in expenses}
                    /\ t.id \notin {x.id : x \in IncomeOf(res.user)}
                /\ \A j \in 1..Len(prompt.categories) :
                    LET entry == prompt.categories[j]
                        inCategory == {x \in expenses : x.category = entry.category}
                    IN  /\ inCategory # {}
                        /\ entry.total = Rupees(SumAmounts(inCategory))
                /\ prompt.generator = "spendingPatterns" =>
                    /\ \A day \in 0..(DaysPerWeek - 1) :
                        prompt.days[day] =
                            Cardinality({x \in expenses : getDay(x.date) = day})
                    /\ prompt.total = Rupees(SumAmounts(expenses))

C11_Witness ==
    /\ res.route = "GET /api/ai-insights"
    /\ Len(fx.prompts) = 5
    /\ IncomeOf(res.user) # {}
    /\ \A i \in 1..5 : ListedIn(fx.prompts[i]) # {} \/ fx.prompts[i].categories # <<>>

C18_ForecastFallbacks ==
    \A user \in Users, reply \in ForecastReplies :
        LET answer == GetSpendingForecastHandler(transactions, currentTransactionId,
                                                 user, reply).res
            result == ForecastResult(reply)
            forecast == answer.ai.forecast
        IN  answer.kind = "aiInsights" =>
                /\ forecast.confidence =
                    (IF Missing(result.confidence) THEN JsNumber(DefaultConfidence)
                     ELSE result.confidence)
                /\ forecast.nextMonth.totalExpense =
                    (IF Missing(result.totalExpense) THEN JsNumber(0)
                     ELSE MathRound(result.totalExpense))
                /\ forecast.nextMonth.categoryBreakdown =
                    (IF Missing(result.categoryBreakdown) THEN JsObject("{}")
                     ELSE result.categoryBreakdown)

\* C12: after any sequence of createUser calls no two stored users have the
\* same username, so getUserByUsername identifies at most one user.
C12_UsernamesUnique ==
    \A a, b \in DOMAIN users :
        users[a].username = users[b].username => a = b

\* C20: ids are unique and never reused, under any interleaving of creates in
\* flight: the n-th createTransaction (createUser) stores its record under id
\* n, counting from 1; every stored record carries the id it is stored under;
\* creates suspended at their await hold different ids and their records are
\* still in the store as written; and no step changes or removes a record
\* that is already stored.
C20_IdsUniqueNoLostWrite ==
    /\ [](/\ DOMAIN transactions = 1..(currentTransactionId - 1)
          /\ DOMAIN users = 1..(currentUserId - 1)
          /\ \A id \in DOMAIN transactions : transactions[id].id = id
          /\ \A id \in DOMAIN users : users[id].id = id
          /\ \A i \in 1..Len(pending) :
                pending[i].phase = "created" =>
                    IF pending[i].kind = "transaction"
                    THEN /\ pending[i].id \in DOMAIN transactions
                         /\ transactions[pending[i].id] = pending[i].res.items[1]
                         /\ transactions[pending[i].id].userId = pending[i].session
                    ELSE /\ pending[i].id \in DOMAIN users
                         /\ users[pending[i].id].username = pending[i].input.username
                         /\ users[pending[i].id].password = pending[i].input.password
          /\ \A i, j \in 1..Len(pending) :
                (/\ pending[i].phase = "created"
                 /\ pending[j].phase = "created"
                 /\ pending[i].kind = pending[j].kind
                 /\ pending[i].id = pending[j].id) => i = j)
    /\ [][/\ \A id \in DOMAIN transactions :
                id \in DOMAIN transactions' /\ transactions'[id] = transactions[id]
          /\ \A id \in DOMAIN users :
                id \in DOMAIN users' /\ users'[id] = users[id]
          /\ DOMAIN transactions' \subseteq
                DOMAIN transactions \cup {Cardinality(DOMAIN transactions) + 1}
          /\ DOMAIN users' \subseteq DOMAIN users \cup {Cardinality(DOMAIN users) + 1}]_vars

C20_Witness ==
    /\ Len(pending) = 2
    /\ pending[1].phase = "created"
    /\ pending[2].phase = "created"
    /\ pending[1].kind = "transaction"
    /\ pending[2].kind = "transaction"
    /\ pending[1].id = 2
    /\ pending[2].id = 1
    /\ currentUserId = 3

\* C14: after the expense form created a transaction, every cached query whose
\* result depends on the user's transactions (the list, the dashboard, the
\* monthly query of the month the transaction is dated in, the insights, the
\* AI insights) is invalidated: none keeps a result from before the creation
\* without the cache's invalid mark.
C14_AllViewsInvalidated ==
    \A k \in DOMAIN queries : queries[k].behind => queries[k].invalidated

\* C15: the month the analytics page has selected is never later than the
\* current calendar month, whatever prevMonth and nextMonth clicks were made.
C15_NeverFutureMonth ==
    page = "/analytics" =>
        selectedMonth.year * MonthsPerYear + selectedMonth.month
            <= getFullYear(now) * MonthsPerYear + getMonth(now)

C15_Witness ==
    /\ page = "/analytics"
    /\ now = StartTick + 1
    /\ selectedMonth = MonthOf(now)
    /\ selectedMonth.month = 0
    /\ currentDate = now
    /\ MonthKey(getFullYear(StartTick), MonthsPerYear - 1) \in DOMAIN queries
    /\ MonthKey(getFullYear(StartTick), MonthsPerYear - 2) \in DOMAIN queries

=============================================================================
